---- MODULE Spec2Model ----
(***************************************************************************)
(* Board validation of cross-wordle: the connectivity check                *)
(* (validateWordIsland), the word extraction (getWordsFromTilesLTR/TTB),   *)
(* the two-pass tile classification (validateBoard), and the hooks that    *)
(* drive them (useBoard, useGame).                                         *)
(***************************************************************************)
EXTENDS Integers, Sequences, FiniteSets, TLC

\* ------------------------------------------------------------------ bounds
\* Side length of the square board (Config.TileCount in the program).
GridSize == 3
\* Largest number of occupied tiles of a board handed to the validators.
MaxPlaced == 3
\* Largest number of board mutations (setLetterOnBoard / resetBoard) in a run.
MaxOps == 2

\* ------------------------------------------------------------ value spaces
Idx == 0 .. (GridSize - 1)
Pos == Idx \X Idx

\* TileState of the program, and the absent field of a freshly created tile.
IDLE == "idle"
VALID == "valid"
INVALID == "invalid"
MIXED == "mixed"
UNSET == "unset"

\* WordDirection
LeftToRight == "LeftToRight"
TopToBottom == "TopToBottom"

\* null
NoLetter == [id |-> 0, letter |-> ""]
NoWord == [word |-> <<>>, row |-> -1, col |-> -1, direction |-> "none"]

\* The letter pool handed out by useLetters: Letter objects with an identity
\* and a character.  Two of them carry the same character.
PoolChars == <<"A", "B", "A">>
LetterPool == {[id |-> i, letter |-> PoolChars[i]] : i \in 1 .. Len(PoolChars)}

\* The words the dictionaries of the model are drawn from (lowercase).
DictWords == {<<"a", "b">>, <<"a", "b", "a">>}

\* String.prototype.toLowerCase on one character of the model's alphabet.
ToLowerCase(ch) ==
  CASE ch = "A" -> "a"
    [] ch = "B" -> "b"
    [] OTHER -> ch

toLowerCase(w) == [k \in 1 .. Len(w) |-> ToLowerCase(w[k])]

\* uuidv4() of the tile created at (row, col): distinct per tile.
TileId(row, col) == row * GridSize + col + 1

\* ------------------------------------------------------- useBoard.ts
initalizeBoard ==
  [row \in Idx |-> [col \in Idx |->
     [id |-> TileId(row, col), row |-> row, col |-> col,
      letter |-> NoLetter, state |-> UNSET]]]

\* ------------------------------------------------------- board-validator
AllTiles(tiles) == {tiles[p[1]][p[2]] : p \in Pos}

\* Variant: the characters counted instead of the Letter objects.
countFilledTilesByChar(tiles) ==
  Cardinality({t.letter.letter : t \in {u \in AllTiles(tiles) : u.letter # NoLetter}})

countFilledTiles(tiles) ==
  Cardinality({t.letter : t \in {u \in AllTiles(tiles) : u.letter # NoLetter}})

countValidTiles(tiles) ==
  Cardinality({t.id : t \in {u \in AllTiles(tiles) : u.state = VALID \/ u.state = MIXED}})

\* Row-major scan for the first occupied tile; NoLetter-tile result is "null".
RECURSIVE findAnyTileFrom(_, _)
findAnyTileFrom(tiles, k) ==
  IF k >= GridSize * GridSize THEN <<>>
  ELSE LET t == tiles[k \div GridSize][k % GridSize]
       IN IF t.letter # NoLetter THEN <<t>> ELSE findAnyTileFrom(tiles, k + 1)

findAnyTile(tiles) == findAnyTileFrom(tiles, 0)

InGrid(p) == p[1] \in Idx /\ p[2] \in Idx

\* Variant: the lookup below is made from the last row too.
GuardDownMissing(row, col) == TRUE

\* The boundary guards of the four neighbour lookups, in source order.
GuardUp(row, col) == row > 0
GuardLeft(row, col) == col > 0
GuardDown(row, col) == row < GridSize - 1
GuardRight(row, col) == col < GridSize - 1

\* Traversal state: ids of visited tiles, every index pair looked up, and
\* whether a lookup fell outside the matrix (a TypeError in the program).
RECURSIVE markTilesDFS(_, _, _)
Probe(tiles, guard, p, st) ==
  IF st.threw \/ ~guard THEN st
  ELSE LET looked == [st EXCEPT !.lookups = @ \cup {p}]
       IN IF ~InGrid(p) THEN [looked EXCEPT !.threw = TRUE]
          ELSE LET t == tiles[p[1]][p[2]]
               IN IF t.letter # NoLetter /\ t.id \notin looked.visited
                  THEN markTilesDFS(tiles, t, looked)
                  ELSE looked

markTilesDFS(tiles, tile, st) ==
  IF tile.id \in st.visited THEN st
  ELSE LET row == tile.row
           col == tile.col
           s0 == [st EXCEPT !.visited = @ \cup {tile.id}]
           s1 == Probe(tiles, GuardUp(row, col), <<row - 1, col>>, s0)
           s2 == Probe(tiles, GuardLeft(row, col), <<row, col - 1>>, s1)
           s3 == Probe(tiles, GuardDown(row, col), <<row + 1, col>>, s2)
           s4 == Probe(tiles, GuardRight(row, col), <<row, col + 1>>, s3)
       IN s4

NoTraversal == [visited |-> {}, lookups |-> {}, threw |-> FALSE]

Traversal(tiles) ==
  LET startingTile == findAnyTile(tiles)
  IN IF startingTile = <<>> THEN NoTraversal
     ELSE markTilesDFS(tiles, startingTile[1], NoTraversal)

\* A lookup outside the matrix makes validateWordIsland throw a TypeError.
validateWordIslandThrows(tiles) == Traversal(tiles).threw

\* Variant: no early return when no starting tile is found.
validateWordIslandNoEarlyReturn(tiles) ==
  LET total == countFilledTiles(tiles)
      tr == Traversal(tiles)
  IN ~tr.threw /\ Cardinality(tr.visited) = total

\* The boolean validateWordIsland returns (FALSE when it throws).
validateWordIsland(tiles) ==
  LET total == countFilledTiles(tiles)
      startingTile == findAnyTile(tiles)
      tr == Traversal(tiles)
  IN IF startingTile = <<>> THEN FALSE
     ELSE ~tr.threw /\ Cardinality(tr.visited) = total

\* The scan loop of getWordsFromTilesLTR over one row: c is the next column,
\* words the completed runs, current the run under construction (or NoWord).
RECURSIVE ScanRow(_, _, _, _)
ScanRow(row, c, words, current) ==
  IF c >= GridSize
  THEN IF current # NoWord THEN Append(words, current) ELSE words
  ELSE LET tile == row[c]
           char == tile.letter.letter
       IN IF current = NoWord /\ char # ""
          THEN ScanRow(row, c + 1, words,
                       [word |-> <<char>>, row |-> tile.row, col |-> tile.col,
                        direction |-> LeftToRight])
          ELSE IF current # NoWord /\ char # ""
          THEN ScanRow(row, c + 1, words, [current EXCEPT !.word = Append(@, char)])
          ELSE IF current # NoWord /\ char = ""
          THEN ScanRow(row, c + 1, Append(words, current), NoWord)
          ELSE ScanRow(row, c + 1, words, current)

\* The inner loop of getWordsFromTilesTTB over column c: r is the next row.
RECURSIVE ScanCol(_, _, _, _, _)
ScanCol(tiles, c, r, words, current) ==
  IF r >= GridSize
  THEN IF current # NoWord THEN Append(words, current) ELSE words
  ELSE LET tile == tiles[r][c]
           char == tile.letter.letter
       IN IF current = NoWord /\ char # ""
          THEN ScanCol(tiles, c, r + 1, words,
                       [word |-> <<char>>, row |-> tile.row, col |-> tile.col,
                        direction |-> TopToBottom])
          ELSE IF current # NoWord /\ char # ""
          THEN ScanCol(tiles, c, r + 1, words, [current EXCEPT !.word = Append(@, char)])
          ELSE IF current # NoWord /\ char = ""
          THEN ScanCol(tiles, c, r + 1, Append(words, current), NoWord)
          ELSE ScanCol(tiles, c, r + 1, words, current)

\* Variant: completed runs of one letter are kept.
LongEnoughFromOne(word) == Len(word.word) > 0

\* .filter((word) => word.word.length > 1)
LongEnough(word) == Len(word.word) > 1

\* .map((word) => ({ ...word, word: word.word.toLowerCase() }))
Lowered(words) == [k \in 1 .. Len(words) |-> [words[k] EXCEPT !.word = toLowerCase(@)]]

RECURSIVE RowsFrom(_, _)
RowsFrom(tiles, r) ==
  IF r >= GridSize THEN <<>>
  ELSE ScanRow(tiles[r], 0, <<>>, NoWord) \o RowsFrom(tiles, r + 1)

getWordsFromTilesLTR(tiles) == Lowered(SelectSeq(RowsFrom(tiles, 0), LongEnough))

RECURSIVE ColsFrom(_, _, _)
ColsFrom(tiles, c, words) ==
  IF c >= GridSize THEN words
  ELSE ColsFrom(tiles, c + 1, ScanCol(tiles, c, 0, words, NoWord))

getWordsFromTilesTTB(tiles) == Lowered(SelectSeq(ColsFrom(tiles, 0, <<>>), LongEnough))

\* dictionary.has(word)
Has(dict, word) == word.word \in dict

\* foundWords, validFoundWords and invalidFoundWords of validateBoard.
FoundWords(tiles) == getWordsFromTilesLTR(tiles) \o getWordsFromTilesTTB(tiles)

\* Variant: Pass A goes over the row-wise dictionary words only.
ValidFoundWordsLTROnly(words, dict) ==
  SelectSeq(words, LAMBDA w : Has(dict, w) /\ w.direction = LeftToRight)

ValidFoundWords(words, dict) == SelectSeq(words, LAMBDA w : Has(dict, w))

InvalidFoundWords(words, dict) == SelectSeq(words, LAMBDA w : ~Has(dict, w))

\* Variant: foundWords.some instead of foundWords.every.
SomeWordIsValid(words, dict) == \E k \in 1 .. Len(words) : Has(dict, words[k])

AllWordsAreValid(words, dict) == \A k \in 1 .. Len(words) : Has(dict, words[k])

\* Variant: a tile that was valid before starts as MIXED instead of INVALID.
InitTileCarriesOver(tile) ==
  IF tile.letter # NoLetter
  THEN [tile EXCEPT !.state = IF @ = VALID THEN MIXED ELSE INVALID]
  ELSE [tile EXCEPT !.state = IDLE]

\* { ...tile, state: INVALID } for a tile with a letter, IDLE otherwise.
InitTile(tile) ==
  IF tile.letter # NoLetter
  THEN [tile EXCEPT !.state = INVALID]
  ELSE [tile EXCEPT !.state = IDLE]

InitTiles(tiles) == [r \in Idx |-> [c \in Idx |-> InitTile(tiles[r][c])]]

\* Variant: the state written on the input tile itself, no copy.
InputTilesWrittenInPlace(tiles) == InitTiles(tiles)

\* What tiles.map(row => row.map(tile => ({ ...tile, state }))) leaves in the
\* input matrix: the spread copies each tile, so the input keeps its tiles.
InputTilesAfterMap(tiles) == tiles

\* The index pairs a word's loop addresses, offset k = 0 .. length - 1; the
\* column-wise loop skips offsets past the last row (gridBounds - 1).
SpanLTR(word) == {<<word.row, word.col + k>> : k \in 0 .. (Len(word.word) - 1)}

SpanTTB(word) ==
  {<<word.row + k, word.col>> :
     k \in {j \in 0 .. (Len(word.word) - 1) : ~(word.row + j > GridSize - 1)}}

Span(word) == IF word.direction = LeftToRight THEN SpanLTR(word) ELSE SpanTTB(word)

\* tile.state = VALID on every tile of the word.
MarkTileValid(state) == VALID

\* Variant: Pass B leaves the state as Pass A set it.
DemoteTileKeeps(state) == state

\* tile.state = tile.state === VALID ? INVALID : tile.state
DemoteTile(state) == IF state = VALID THEN INVALID ELSE state

\* Lines 128-147 for one word: tile.state = VALID on every tile of its span.
MarkWord(tiles, word) ==
  [r \in Idx |-> [c \in Idx |->
     IF <<r, c>> \in Span(word)
     THEN [tiles[r][c] EXCEPT !.state = MarkTileValid(@)]
     ELSE tiles[r][c]]]

\* Lines 152-171 for one word: every valid tile of its span is demoted.
DemoteWord(tiles, word) ==
  [r \in Idx |-> [c \in Idx |->
     IF <<r, c>> \in Span(word)
     THEN [tiles[r][c] EXCEPT !.state = DemoteTile(@)]
     ELSE tiles[r][c]]]

RECURSIVE PassA(_, _, _)
PassA(tiles, words, k) ==
  IF k > Len(words) THEN tiles ELSE PassA(MarkWord(tiles, words[k]), words, k + 1)

RECURSIVE PassB(_, _, _)
PassB(tiles, words, k) ==
  IF k > Len(words) THEN tiles ELSE PassB(DemoteWord(tiles, words[k]), words, k + 1)

\* validateBoard as a function: [tiles, allWordsAreValid].
validateBoard(tiles, dict) ==
  LET words == FoundWords(tiles)
      marked == PassA(InitTiles(tiles), ValidFoundWords(words, dict), 1)
  IN [tiles |-> PassB(marked, InvalidFoundWords(words, dict), 1),
      allWordsAreValid |-> AllWordsAreValid(words, dict)]

\* ------------------------------------------------------------------ state
VARIABLES
  board,                \* useBoard's state: the matrix of tiles
  dictionary,           \* the words constant: a set of lowercase words
  pc,                   \* position of the running handler / call
  isBoardValidToCheck,  \* requestFinish: result of validateWordIsland
  foundWords,           \* validateBoard: leftToRight.concat(topToBottom)
  allWordsAreValid,     \* validateBoard: foundWords.every(...)
  validatedBoard,       \* validateBoard: tiles of the new board
  i,                    \* validateBoard: index of the next word of the running pass
  accessed,             \* index pairs looked up or written by the running call
  result,               \* validateBoard's return value, <<>> before it returns
  console,              \* the last message of console.info, "" before any
  ops                   \* number of board mutations so far

vars == <<board, dictionary, pc, isBoardValidToCheck, foundWords, allWordsAreValid,
          validatedBoard, i, accessed, result, console, ops>>

callVars == <<foundWords, allWordsAreValid, validatedBoard, i, result>>

\* Locals of validateBoard before it is called.
NoCall ==
  /\ foundWords = <<>>
  /\ allWordsAreValid = FALSE
  /\ validatedBoard = <<>>
  /\ i = 0
  /\ accessed = {}
  /\ result = <<>>
  /\ isBoardValidToCheck = FALSE

\* ------------------------------------------------- validateBoard, stepwise
\* Lines 99-124: extract the words, decide allWordsAreValid, copy the tiles.
ValidateBoardBegin ==
  /\ pc = "call"
  /\ foundWords' = FoundWords(board)
  /\ allWordsAreValid' = AllWordsAreValid(FoundWords(board), dictionary)
  /\ validatedBoard' = InitTiles(board)
  /\ i' = 1
  /\ board' = InputTilesAfterMap(board)
  /\ pc' = "passA"
  /\ UNCHANGED <<dictionary, isBoardValidToCheck, accessed, result, console, ops>>

\* Lines 128-147, one iteration of the loop over validFoundWords.
PassAStep ==
  /\ pc = "passA"
  /\ i <= Len(ValidFoundWords(foundWords, dictionary))
  /\ LET word == ValidFoundWords(foundWords, dictionary)[i]
     IN /\ validatedBoard' = MarkWord(validatedBoard, word)
        /\ accessed' = accessed \cup Span(word)
  /\ i' = i + 1
  /\ UNCHANGED <<board, dictionary, pc, isBoardValidToCheck, foundWords,
                 allWordsAreValid, result, console, ops>>

\* The loop over validFoundWords is exhausted: on to invalidFoundWords.
PassADone ==
  /\ pc = "passA"
  /\ i > Len(ValidFoundWords(foundWords, dictionary))
  /\ pc' = "passB"
  /\ i' = 1
  /\ UNCHANGED <<board, dictionary, isBoardValidToCheck, foundWords,
                 allWordsAreValid, validatedBoard, accessed, result, console, ops>>

\* Lines 152-171, one iteration of the loop over invalidFoundWords.
PassBStep ==
  /\ pc = "passB"
  /\ i <= Len(InvalidFoundWords(foundWords, dictionary))
  /\ LET word == InvalidFoundWords(foundWords, dictionary)[i]
     IN /\ validatedBoard' = DemoteWord(validatedBoard, word)
        /\ accessed' = accessed \cup Span(word)
  /\ i' = i + 1
  /\ UNCHANGED <<board, dictionary, pc, isBoardValidToCheck, foundWords,
                 allWordsAreValid, result, console, ops>>

\* The loop over invalidFoundWords is exhausted; line 173 returns
\* [validatedBoard, allWordsAreValid].
PassBDone ==
  /\ pc = "passB"
  /\ i > Len(InvalidFoundWords(foundWords, dictionary))
  /\ result' = <<[tiles |-> validatedBoard, allWordsAreValid |-> allWordsAreValid]>>
  /\ pc' = "returned"
  /\ UNCHANGED <<board, dictionary, isBoardValidToCheck, foundWords,
                 allWordsAreValid, validatedBoard, i, accessed, console, ops>>

ValidateBoardSteps ==
  \/ ValidateBoardBegin
  \/ PassAStep
  \/ PassADone
  \/ PassBStep
  \/ PassBDone

\* --------------------------------------------- the validators applied to
\* --------------------------------------------- every board within the bounds
Alphabet == {"A", "B"}

\* How an input board comes: "fresh", with the states as initalizeBoard leaves
\* them and a Letter object of its own on every occupied tile, or "reused",
\* with states left by an earlier validation and one Letter object per
\* character, shared by the tiles that show it.
Variants == {"fresh", "reused"}

LetterAt(variant, row, col, ch) ==
  IF variant = "reused"
  THEN [id |-> IF ch = "A" THEN 1 ELSE 2, letter |-> ch]
  ELSE [id |-> TileId(row, col), letter |-> ch]

InputBoard(placed, chars, variant) ==
  [row \in Idx |-> [col \in Idx |->
     [id |-> TileId(row, col), row |-> row, col |-> col,
      letter |-> IF <<row, col>> \in placed
                 THEN LetterAt(variant, row, col, chars[<<row, col>>])
                 ELSE NoLetter,
      state |-> IF variant = "reused" THEN VALID ELSE UNSET]]]

InitFn ==
  /\ \E placed \in {P \in SUBSET Pos : Cardinality(P) <= MaxPlaced} :
       \E chars \in [placed -> Alphabet] :
         \E variant \in Variants :
           board = InputBoard(placed, chars, variant)
  /\ dictionary \in SUBSET DictWords
  /\ pc = "ready"
  /\ console = ""
  /\ ops = 0
  /\ NoCall

\* validateWordIsland(board), lines 25-84.
ApplyValidateWordIsland ==
  /\ pc = "ready"
  /\ isBoardValidToCheck' = validateWordIsland(board)
  /\ accessed' = Traversal(board).lookups
  /\ pc' = "call"
  /\ UNCHANGED <<board, dictionary, callVars, console, ops>>

NextFn ==
  \/ ApplyValidateWordIsland
  \/ ValidateBoardBegin
  \/ PassAStep
  \/ PassADone
  \/ PassBStep
  \/ PassBDone

SpecFn == InitFn /\ [][NextFn]_vars

\* ------------------------------------------------------ useBoard, useGame
Init ==
  /\ board = initalizeBoard
  /\ dictionary \in SUBSET DictWords
  /\ pc = "idle"
  /\ console = ""
  /\ ops = 0
  /\ NoCall

\* setLetterOnBoard(position, letter): the tile at the position gets the
\* letter (or null); nothing else of the tile changes.
SetLetter(tiles, row, col, letter) == [tiles EXCEPT ![row][col].letter = letter]

SetLetterOnBoard ==
  /\ pc = "idle"
  /\ ops < MaxOps
  /\ \E position \in Pos, letter \in LetterPool \cup {NoLetter} :
       board' = SetLetter(board, position[1], position[2], letter)
  /\ ops' = ops + 1
  /\ UNCHANGED <<dictionary, pc, isBoardValidToCheck, callVars, accessed, console>>

\* Variant: resetBoard builds the tiles anew, with fresh ids.
ResetTilesAnew(tiles) ==
  [r \in Idx |-> [c \in Idx |->
     [tiles[r][c] EXCEPT !.letter = NoLetter,
                         !.id = TileId(r, c) + GridSize * GridSize]]]

\* resetBoard: every tile copied with letter null.
ResetTiles(tiles) == [r \in Idx |-> [c \in Idx |-> [tiles[r][c] EXCEPT !.letter = NoLetter]]]

ResetBoard ==
  /\ pc = "idle"
  /\ ops < MaxOps
  /\ board' = ResetTiles(board)
  /\ ops' = ops + 1
  /\ UNCHANGED <<dictionary, pc, isBoardValidToCheck, callVars, accessed, console>>

\* Variant: validateBoard is called whatever validateWordIsland returned.
GateAlwaysOpen(islandResult) == TRUE

\* if (isBoardValidToCheck)
GateOpen(islandResult) == islandResult

\* requestFinish, lines 38-39 and 45-47: the connectivity gate.
RequestFinish ==
  /\ pc = "idle"
  /\ isBoardValidToCheck' = validateWordIsland(board)
  /\ accessed' = Traversal(board).lookups
  /\ IF GateOpen(validateWordIsland(board))
     THEN pc' = "call" /\ console' = console
     ELSE pc' = "idle" /\ console' = "Invalid tiles"
  /\ UNCHANGED <<board, dictionary, callVars, ops>>

\* requestFinish, lines 41-44, with setBoard the setter of useBoard's state:
\* the new board is stored and the handler's locals go out of scope.
FinishSetBoard ==
  /\ pc = "returned"
  /\ board' = result[1].tiles
  /\ console' = IF result[1].allWordsAreValid THEN "done!" ELSE console
  /\ pc' = "idle"
  /\ foundWords' = <<>>
  /\ allWordsAreValid' = FALSE
  /\ validatedBoard' = <<>>
  /\ i' = 0
  /\ accessed' = {}
  /\ result' = <<>>
  /\ isBoardValidToCheck' = FALSE
  /\ UNCHANGED <<dictionary, ops>>

\* requestFinish, line 41, with setBoard as useBoard (lines 37-41) returns
\* it: the object has no such member, the call throws and nothing is stored.
FinishThrows ==
  /\ pc = "returned"
  /\ pc' = "idle"
  /\ foundWords' = <<>>
  /\ allWordsAreValid' = FALSE
  /\ validatedBoard' = <<>>
  /\ i' = 0
  /\ accessed' = {}
  /\ result' = <<>>
  /\ isBoardValidToCheck' = FALSE
  /\ UNCHANGED <<board, dictionary, console, ops>>

Next ==
  \/ SetLetterOnBoard
  \/ ResetBoard
  \/ RequestFinish
  \/ ValidateBoardBegin
  \/ PassAStep
  \/ PassADone
  \/ PassBStep
  \/ PassBDone
  \/ FinishSetBoard
  \/ FinishThrows

Spec == Init /\ [][Next]_vars

\* ------------------------------------------------------------ properties
Occupied(tiles) == {p \in Pos : tiles[p[1]][p[2]].letter # NoLetter}

Adjacent(p, q) ==
  \/ p[1] = q[1] /\ (p[2] = q[2] + 1 \/ q[2] = p[2] + 1)
  \/ p[2] = q[2] /\ (p[1] = q[1] + 1 \/ q[1] = p[1] + 1)

\* The occupied positions reachable from S by up/down/left/right steps.
RECURSIVE Reach(_, _)
Reach(S, occ) ==
  LET more == S \cup {q \in occ : \E p \in S : Adjacent(p, q)}
  IN IF more = S THEN S ELSE Reach(more, occ)

Connected(tiles) ==
  /\ Occupied(tiles) # {}
  /\ \A p \in Occupied(tiles) : Reach({p}, Occupied(tiles)) = Occupied(tiles)

OwnLetters(tiles) ==
  \A p, q \in Occupied(tiles) :
    p # q => tiles[p[1]][p[2]].letter # tiles[q[1]][q[2]].letter

\* Maximal runs of two or more occupied tiles: <<line, first, last>>.
RowRuns(tiles) ==
  {run \in Idx \X Idx \X Idx :
     /\ run[2] < run[3]
     /\ \A c \in run[2] .. run[3] : <<run[1], c>> \in Occupied(tiles)
     /\ (run[2] = 0 \/ <<run[1], run[2] - 1>> \notin Occupied(tiles))
     /\ (run[3] = GridSize - 1 \/ <<run[1], run[3] + 1>> \notin Occupied(tiles))}

ColRuns(tiles) ==
  {run \in Idx \X Idx \X Idx :
     /\ run[2] < run[3]
     /\ \A r \in run[2] .. run[3] : <<r, run[1]>> \in Occupied(tiles)
     /\ (run[2] = 0 \/ <<run[2] - 1, run[1]>> \notin Occupied(tiles))
     /\ (run[3] = GridSize - 1 \/ <<run[3] + 1, run[1]>> \notin Occupied(tiles))}

LowerOf(ch) == IF ch = "A" THEN "a" ELSE IF ch = "B" THEN "b" ELSE ch

RowCandidate(tiles, run) ==
  [word |-> [k \in 1 .. (run[3] - run[2] + 1) |->
               LowerOf(tiles[run[1]][run[2] + k - 1].letter.letter)],
   row |-> run[1], col |-> run[2], direction |-> LeftToRight]

ColCandidate(tiles, run) ==
  [word |-> [k \in 1 .. (run[3] - run[2] + 1) |->
               LowerOf(tiles[run[2] + k - 1][run[1]].letter.letter)],
   row |-> run[2], col |-> run[1], direction |-> TopToBottom]

Candidates(tiles) ==
  {RowCandidate(tiles, run) : run \in RowRuns(tiles)}
    \cup {ColCandidate(tiles, run) : run \in ColRuns(tiles)}

\* The positions a candidate covers.
Covers(w) ==
  IF w.direction = LeftToRight
  THEN {<<w.row, w.col + k>> : k \in 0 .. (Len(w.word) - 1)}
  ELSE {<<w.row + k, w.col>> : k \in 0 .. (Len(w.word) - 1)}

Elements(seq) == {seq[k] : k \in 1 .. Len(seq)}

Validating == {"call", "passA", "passB", "returned"}

\* C1: on a board whose occupied tiles each hold a letter of their own,
\* validateWordIsland returns true exactly when some tile is occupied and all
\* occupied tiles are mutually reachable by up/down/left/right steps.
IslandIffConnected ==
  (pc = "call" /\ OwnLetters(board)) => (isBoardValidToCheck = Connected(board))

\* C1 witness: two disjoint groups, one of them a dictionary word, rejected.
IslandWitness ==
  /\ pc = "call"
  /\ OwnLetters(board)
  /\ Cardinality(Occupied(board)) = 3
  /\ ~Connected(board)
  /\ Candidates(board) # {}
  /\ \A w \in Candidates(board) : w.word \in dictionary
  /\ isBoardValidToCheck = FALSE

\* C2: after validateBoard a tile without a letter is idle; a tile with a
\* letter is valid iff some candidate covering it is in the dictionary and no
\* candidate covering it is outside the dictionary, and invalid otherwise.
TileStatesClassified ==
  pc = "returned" =>
    LET candidates == Candidates(board)
    IN \A p \in Pos :
      LET tile == result[1].tiles[p[1]][p[2]]
          covering == {w \in candidates : p \in Covers(w)}
      IN IF p \notin Occupied(board) THEN tile.state = IDLE
         ELSE IF /\ \E w \in covering : w.word \in dictionary
                 /\ \A w \in covering : w.word \in dictionary
         THEN tile.state = VALID
         ELSE tile.state = INVALID

\* C2 witness: a tile on a dictionary across-word and a non-dictionary
\* down-word ends invalid.
DemotionWitness ==
  /\ pc = "returned"
  /\ \E p \in Pos :
       /\ \E w \in Candidates(board) :
            w.direction = LeftToRight /\ p \in Covers(w) /\ w.word \in dictionary
       /\ \E w \in Candidates(board) :
            w.direction = TopToBottom /\ p \in Covers(w) /\ w.word \notin dictionary
       /\ result[1].tiles[p[1]][p[2]].state = INVALID

\* C3: the boolean validateBoard returns is true iff every candidate word of
\* the board, row-wise and column-wise, is in the dictionary.
AllValidIffEveryCandidate ==
  pc = "returned" =>
    (result[1].allWordsAreValid = (\A w \in Candidates(board) : w.word \in dictionary))

\* C3 witness: one candidate in the dictionary, one outside: false.
AllValidWitness ==
  /\ pc = "returned"
  /\ \E w \in Candidates(board) : w.word \in dictionary
  /\ \E w \in Candidates(board) : w.word \notin dictionary
  /\ result[1].allWordsAreValid = FALSE

\* C4: the words getWordsFromTilesLTR and getWordsFromTilesTTB produce are
\* exactly the maximal runs of two or more occupied tiles of the rows and of
\* the columns, each once, with the position of the first letter and the
\* lowercased text.
WordsAreMaximalRuns ==
  (pc = "passA" /\ i = 1) =>
    LET ltr == SelectSeq(foundWords, LAMBDA w : w.direction = LeftToRight)
        ttb == SelectSeq(foundWords, LAMBDA w : w.direction = TopToBottom)
        rowRuns == RowRuns(board)
        colRuns == ColRuns(board)
    IN /\ Elements(ltr) = {RowCandidate(board, run) : run \in rowRuns}
       /\ Len(ltr) = Cardinality(rowRuns)
       /\ Elements(ttb) = {ColCandidate(board, run) : run \in colRuns}
       /\ Len(ttb) = Cardinality(colRuns)

\* C4 witness: a run that reaches the end of its row, a run that an empty
\* tile ends, and a lone tile that yields no candidate on its row.
WordsWitness ==
  /\ pc = "passA"
  /\ \E w \in Elements(foundWords) :
       w.direction = LeftToRight /\ w.col + Len(w.word) = GridSize
  /\ \E w \in Elements(foundWords) :
       w.direction = TopToBottom /\ w.row + Len(w.word) < GridSize
  /\ \E p \in Occupied(board) :
       \A w \in Elements(foundWords) : w.direction = LeftToRight => p \notin Covers(w)

SameButState(t, u) ==
  t.id = u.id /\ t.row = u.row /\ t.col = u.col /\ t.letter = u.letter

\* C5: validateBoard leaves every tile of its input as it was, and every tile
\* of the grid it builds has the id, row, column and letter of the input tile
\* at the same position.
InputNotMutated ==
  [][/\ pc \in {"call", "passA", "passB"} => board' = board
     /\ pc' \in {"passA", "passB", "returned"} =>
          \A p \in Pos : SameButState(validatedBoard'[p[1]][p[2]], board[p[1]][p[2]])
     /\ pc' = "returned" => result'[1].tiles = validatedBoard']_vars

\* C5 witness: a returned grid whose states differ from the input's.
InputNotMutatedWitness ==
  /\ pc = "returned"
  /\ \E p \in Occupied(board) :
       /\ board[p[1]][p[2]].state = UNSET
       /\ result[1].tiles[p[1]][p[2]].state = VALID

\* C6: validating the grid validateBoard returned yields the same tile states
\* and the same boolean again.
Idempotent ==
  pc = "returned" => validateBoard(result[1].tiles, dictionary) = result[1]

\* C6 witness: an input that carried states of an earlier validation, with
\* a valid and an invalid tile in the result.
IdempotentWitness ==
  /\ pc = "returned"
  /\ \E p \in Occupied(board) : board[p[1]][p[2]].state = VALID
  /\ \E p \in Pos : result[1].tiles[p[1]][p[2]].state = VALID
  /\ \E p \in Pos : result[1].tiles[p[1]][p[2]].state = INVALID

\* C7: requestFinish on a board without letters gets false from
\* validateWordIsland, which neither throws nor looks up a tile, and does not
\* call validateBoard.
EmptyBoardRejected ==
  [][(pc = "idle" /\ ops' = ops /\ Occupied(board) = {}) =>
       /\ ~validateWordIslandThrows(board)
       /\ isBoardValidToCheck' = FALSE
       /\ accessed' = {}
       /\ pc' = "idle"
       /\ console' = "Invalid tiles"
       /\ board' = board
       /\ UNCHANGED callVars]_vars

\* C7 witness: requestFinish has answered on the initial, empty board.
EmptyBoardWitness ==
  /\ pc = "idle"
  /\ ops = 0
  /\ Occupied(board) = {}
  /\ console = "Invalid tiles"

\* C8: every index pair validateWordIsland looks up and validateBoard writes
\* through lies in the matrix, and so does every tile of every candidate word,
\* origin plus offset below its length.
IndicesInRange ==
  /\ accessed \subseteq Pos
  /\ pc = "call" => ~validateWordIslandThrows(board)
  /\ \A w \in Elements(foundWords) : Covers(w) \subseteq Pos

\* C8 witness: a column-wise word that ends in the last row and a traversal
\* that visited a tile in the last row and one in the last column.
IndicesWitness ==
  /\ pc = "returned"
  /\ \E w \in Elements(foundWords) :
       w.direction = TopToBottom /\ w.row + Len(w.word) = GridSize
  /\ \E p \in accessed : p[1] = GridSize - 1
  /\ \E p \in accessed : p[2] = GridSize - 1
  /\ TileId(GridSize - 1, 0) \in Traversal(board).visited

\* C9: when Pass B starts, every tile of every dictionary word, of both
\* orientations, has been marked valid; tiles are demoted in Pass B only, and
\* from Pass B on no tile becomes valid.
PassABeforePassB ==
  [][/\ (pc' = "passB" /\ pc # "passB") =>
          /\ pc = "passA"
          /\ \A w \in Elements(foundWords) :
               w.word \in dictionary =>
                 \A p \in Covers(w) : validatedBoard[p[1]][p[2]].state = VALID
     /\ \A p \in Pos :
          /\ (/\ pc \in {"passA", "passB"}
              /\ validatedBoard[p[1]][p[2]].state = VALID
              /\ validatedBoard'[p[1]][p[2]].state # VALID) => pc = "passB"
          /\ (/\ pc = "passB"
              /\ validatedBoard'[p[1]][p[2]].state = VALID)
               => validatedBoard[p[1]][p[2]].state = VALID]_vars

\* C9 witness: a tile of a dictionary word was demoted in Pass B.
PassOrderWitness ==
  /\ pc = "passB"
  /\ \E w \in Elements(foundWords) :
       /\ w.word \in dictionary
       /\ \E p \in Covers(w) : validatedBoard[p[1]][p[2]].state = INVALID

\* C10: requestFinish calls validateBoard only on a board validateWordIsland
\* accepted; when validateWordIsland returns false it computes no tile state
\* and leaves the stored board as it was.
GateBeforeValidation ==
  [][/\ pc' \in Validating => (isBoardValidToCheck' /\ validateWordIsland(board'))
     /\ (pc = "idle" /\ ops' = ops /\ ~validateWordIsland(board)) =>
          /\ pc' = "idle"
          /\ board' = board
          /\ UNCHANGED callVars]_vars

\* C10 witness: requestFinish has rejected a board with two letters apart.
GateWitness ==
  /\ pc = "idle"
  /\ console = "Invalid tiles"
  /\ Cardinality(Occupied(board)) = 2
  /\ ~Connected(board)
  /\ accessed = Traversal(board).lookups
  /\ \A p \in Pos : board[p[1]][p[2]].state = UNSET

\* C11: each letter is referenced by at most one tile, so the number of
\* distinct letters countFilledTiles counts is the number of occupied tiles.
LetterOnOneTile ==
  /\ OwnLetters(board)
  /\ countFilledTiles(board) = Cardinality(Occupied(board))

BoardShapeKept ==
  /\ DOMAIN board = Idx
  /\ \A r \in Idx :
       /\ DOMAIN board[r] = Idx
       /\ \A c \in Idx :
            /\ board[r][c].row = r
            /\ board[r][c].col = c
            /\ board[r][c].id = initalizeBoard[r][c].id

\* C13 witness: two letters were set and requestFinish stored a validated
\* board with a valid word.
BoardShapeWitness ==
  /\ pc = "idle"
  /\ ops >= 2
  /\ Cardinality(Occupied(board)) = 2
  /\ \A p \in Occupied(board) : board[p[1]][p[2]].state = VALID
  /\ \E p \in Pos : board[p[1]][p[2]].state = IDLE

\* C14: for a board validateWordIsland accepted, with two or more occupied
\* tiles, validateBoard returns true iff every occupied tile of the grid it
\* returns is valid, and then countValidTiles equals countFilledTiles.
AllValidIffAllTilesValid ==
  (pc = "returned" /\ isBoardValidToCheck /\ Cardinality(Occupied(board)) >= 2) =>
    /\ result[1].allWordsAreValid =
         (\A p \in Occupied(board) : result[1].tiles[p[1]][p[2]].state = VALID)
    /\ result[1].allWordsAreValid =>
         countValidTiles(result[1].tiles) = countFilledTiles(result[1].tiles)

\* C14 on boards whose occupied tiles each hold a letter of their own.
AllValidIffAllTilesValidOwnLetters == OwnLetters(board) => AllValidIffAllTilesValid

====
